---- MODULE Spec2Model ----
(***************************************************************************)
(* Model of voicevox_engine/user_dict/user_dict_manager.py: the user       *)
(* dictionary store (user_dict.json), the compiled dictionary (user.dic),  *)
(* the analyzer's active-dictionary slot (pyopenjtalk) and the two module  *)
(* level locks, driven by concurrent callers of UserDictionary's methods;  *)
(* and of the install endpoint of app/routers/aivm_models.py.               *)
(***************************************************************************)
EXTENDS Integers, Sequences, FiniteSets, TLC

(* ---------------------------- bounds ----------------------------------- *)
NumThreads == 2
MaxCalls == 2
MaxRequests == 3

Threads == 1..NumThreads

(* ------------------------- values and sentinels ------------------------ *)
NoThread == 0
\* a file is [kind, body]; kind "absent" stands for a path with no file
NoFile == [kind |-> "absent", body |-> << >>]
Exists(f) == f.kind # "absent"
\* the analyzer's slot holds the dictionary it loaded, or nothing
NoDict == [kind |-> "none", body |-> << >>]
NoErr == "none"

(* ------------------- python dict (insertion ordered) ------------------- *)
\* A dict is a sequence of <<key, value>> pairs with pairwise distinct keys.
Keys(d) == {d[i][1] : i \in 1..Len(d)}

IndexOf(d, k) == CHOOSE i \in 1..Len(d) : d[i][1] = k

Get(d, k) == d[IndexOf(d, k)][2]

Values(d) == [i \in 1..Len(d) |-> d[i][2]]

\* d[k] = v : an existing key keeps its position, a new key is appended
DictSet(d, k, v) ==
    IF k \in Keys(d)
    THEN [i \in 1..Len(d) |-> IF d[i][1] = k THEN <<k, v>> ELSE d[i]]
    ELSE Append(d, <<k, v>>)

\* mutant of DictDel: the entry is removed by position, not by key
DictDelFirst(d, k) == Tail(d)

\* del d[k]
DictDel(d, k) == SelectSeq(d, LAMBDA e : e[1] # k)

RECURSIVE DictUpdate(_, _)
\* a.update(b), the right operand of {**a, **b}
DictUpdate(a, b) ==
    IF b = << >> THEN a
    ELSE DictUpdate(DictSet(a, b[1][1], b[1][2]), Tail(b))

\* {**a, **b}
DictMerge(a, b) == DictUpdate(a, b)

(* ------------------------------ uuid ----------------------------------- *)
\* A key string is <<value, form>>: the canonical lower-case hyphenated text
\* of a UUID, another accepted spelling of it (upper case), or not a UUID.
Canon == "canon"
Upper == "upper"
Bad == "bad"

IsUuidText(k) == k[2] \in {Canon, Upper}

\* str(UUID(k)) for a key UUID() accepts
StrUUID(k) == <<k[1], Canon>>

(* ------------------------- words (user_dict_word) ---------------------- *)
part_of_speech_data ==
    << [context_id |-> 1345, part_of_speech |-> "noun",
        part_of_speech_detail_1 |-> "common", part_of_speech_detail_2 |-> "*",
        part_of_speech_detail_3 |-> "*",
        accent_associative_rules |-> {"*", "C1", "C2"}],
       [context_id |-> 642, part_of_speech |-> "verb",
        part_of_speech_detail_1 |-> "independent", part_of_speech_detail_2 |-> "*",
        part_of_speech_detail_3 |-> "*",
        accent_associative_rules |-> {"*"}] >>

Word(surface, ctx, pos, d1, rule) ==
    [surface |-> surface, context_id |-> ctx, part_of_speech |-> pos,
     part_of_speech_detail_1 |-> d1, part_of_speech_detail_2 |-> "*",
     part_of_speech_detail_3 |-> "*", accent_associative_rule |-> rule]

\* create_word: a word property is [surface, word_type, mora_count, accent_type]
WordTypeRow(word_type) == IF word_type = "COMMON_NOUN" THEN 1 ELSE 2

CreateWordValid(p) == p.accent_type >= 0 /\ p.accent_type <= p.mora_count

create_word(p) ==
    LET row == part_of_speech_data[WordTypeRow(p.word_type)]
    IN  Word(p.surface, row.context_id, row.part_of_speech,
             row.part_of_speech_detail_1, "*")

convert_to_save_format(w) == <<"save", w>>

convert_from_save_format(s) == s[2]

(* ------------------------------ inputs --------------------------------- *)
PropA == [surface |-> "s1", word_type |-> "COMMON_NOUN", mora_count |-> 3, accent_type |-> 1]
PropBad == [surface |-> "s1", word_type |-> "COMMON_NOUN", mora_count |-> 1, accent_type |-> 5]
WordProperties == {PropA, PropBad}

RecA == Word("s1", 1345, "noun", "common", "C1")
RecB == Word("s2", 642, "verb", "independent", "*")
RecBadCtx == Word("s1", 7, "noun", "common", "*")
RecBadPos == Word("s1", 1345, "verb", "common", "*")
RecBadRule == Word("s2", 642, "verb", "independent", "C1")

ImportKeys == {<<101, Canon>>, <<101, Upper>>, <<100, Bad>>}

\* the dict_data arguments, in the order of the request's JSON object: one
\* entry; the same identifier under two spellings; a key that is no UUID; an
\* invalid word after a valid one, before a valid one, and alone
ImportDicts ==
    { << <<<<101, Canon>>, RecB>> >>,
      << <<<<101, Canon>>, RecB>>, <<<<101, Upper>>, RecB>> >>,
      << <<<<100, Bad>>, RecB>> >>,
      << <<<<101, Canon>>, RecB>>, <<<<101, Upper>>, RecBadCtx>> >>,
      << <<<<101, Canon>>, RecBadPos>>, <<<<101, Upper>>, RecB>> >>,
      << <<<<101, Canon>>, RecBadRule>> >> }

(* ------------------------- store file codec ---------------------------- *)
\* mutant of write_to_json: the last entry is not written
WriteToJsonDropsLast(user_dict) ==
    [kind |-> "json",
     body |-> [i \in 1..(Len(user_dict) - 1) |->
                 <<user_dict[i][1], convert_to_save_format(user_dict[i][2])>>]]

\* _write_to_json: the bytes written for user_dict (a JSON object, in order)
write_to_json(user_dict) ==
    [kind |-> "json",
     body |-> [i \in 1..Len(user_dict) |->
                 <<user_dict[i][1], convert_to_save_format(user_dict[i][2])>>]]

RECURSIVE LoadEntries(_, _)
\* the loop of read_dict: result[str(UUID(word_uuid))] = convert_from_save_format(word)
LoadEntries(result, entries) ==
    IF entries = << >> THEN result
    ELSE LoadEntries(DictSet(result, StrUUID(entries[1][1]),
                             convert_from_save_format(entries[1][2])),
                     Tail(entries))

\* the store file a write_bytes that raised has left: opened with truncation
\* and not written to its end, it holds no JSON document
Partial == [kind |-> "partial", body |-> << >>]

\* json.load raises JSONDecodeError on a file that holds no JSON document;
\* UUID(word_uuid) raises ValueError on a key that is not a UUID
ReadDictRaises(file) ==
    /\ Exists(file)
    /\ \/ file = Partial
       \/ \E i \in 1..Len(file.body) : ~IsUuidText(file.body[i][1])

\* the value read_dict returns for a store file it can parse
read_dict(file) == IF ~Exists(file) THEN << >> ELSE LoadEntries(<< >>, file.body)

(* ------------------------ import validation ---------------------------- *)
PosRows(w) == {i \in 1..Len(part_of_speech_data) :
                  part_of_speech_data[i].context_id = w.context_id}

\* the body of the validation loop for one entry: "ok" or the exception raised
ValidateEntry(word_uuid, w) ==
    IF ~IsUuidText(word_uuid) THEN "ValueError"
    ELSE IF PosRows(w) = {} THEN "ValueError"
    ELSE LET pos_detail ==
                 part_of_speech_data[CHOOSE i \in PosRows(w) :
                                        \A j \in PosRows(w) : i <= j]
         IN  IF /\ w.part_of_speech = pos_detail.part_of_speech
                /\ w.part_of_speech_detail_1 = pos_detail.part_of_speech_detail_1
                /\ w.part_of_speech_detail_2 = pos_detail.part_of_speech_detail_2
                /\ w.part_of_speech_detail_3 = pos_detail.part_of_speech_detail_3
                /\ w.accent_associative_rule \in pos_detail.accent_associative_rules
             THEN "ok"
             ELSE "AssertionError"

\* mutant of ValidateImport: the loop stops after the first entry
ValidateImportFirstOnly(dict_data) ==
    IF dict_data = << >> THEN "ok"
    ELSE ValidateEntry(dict_data[1][1], dict_data[1][2])

\* the validation loop of import_user_dict: the first exception, or "ok"
ValidateImport(dict_data) ==
    LET failing == {i \in 1..Len(dict_data) :
                       ValidateEntry(dict_data[i][1], dict_data[i][2]) # "ok"}
    IN  IF failing = {} THEN "ok"
        ELSE LET first == CHOOSE i \in failing : \A j \in failing : i <= j
             IN  ValidateEntry(dict_data[first][1], dict_data[first][2])

\* new_dict of import_user_dict
ImportMerge(old_dict, dict_data, override) ==
    IF override THEN DictMerge(old_dict, dict_data)
    ELSE DictMerge(dict_data, old_dict)

(* --------------------------- compilation ------------------------------- *)
\* one line of the user part of csv_text
CsvLine(w) ==
    <<w.surface, w.context_id, w.context_id, w.part_of_speech,
      w.part_of_speech_detail_1, w.part_of_speech_detail_2,
      w.part_of_speech_detail_3, w.accent_associative_rule>>

\* csv_text after lines 125-147: the base lexicon files, in order
CsvBase(nFiles) == [i \in 1..nFiles |-> <<"base", i>>]

\* what lines 151-175 append to csv_text: one line per user word
CsvUserLines(user_dict) == [i \in 1..Len(user_dict) |-> CsvLine(user_dict[i][2])]

\* csv_text: the base lexicon files followed by one line per user word
CsvText(nFiles, user_dict) == CsvBase(nFiles) \o CsvUserLines(user_dict)

\* the file mecab_dict_index produces from a csv file
mecab_dict_index(csv) == [kind |-> "dic", body |-> csv.body]

(* ------------------------------ state ---------------------------------- *)
VARIABLES
    is_pytest,            \* self._is_pytest
    win32,                \* sys.platform == "win32"
    nBase,                \* number of *.csv.zst files in default_dict_dir_path
    storeFile,            \* contents of user_dict.json, or NoFile
    compiledFile,         \* contents of user.dic, or NoFile
    slot,                 \* dictionary loaded in pyopenjtalk's global, or NoDict
    mutex_user_dict,      \* holder of the store lock, or NoThread
    mutex_openjtalk_dict, \* holder of the compilation lock, or NoThread
    pc,                   \* position of each thread
    call,                 \* the call each thread is executing (or last executed)
    new_dict,             \* local: dict handed to _write_to_json
    word_uuid,            \* local of apply_word
    csv_text,             \* local of update_dict: the csv text built from
                          \* the base files and what its read_dict returned
    tmp_csv,              \* the file at tmp_csv_path of the invocation of
                          \* update_dict the thread is in, or NoFile
    tmp_compiled,         \* the file at its tmp_compiled_path, or NoFile
    litter,               \* the temporary files that invocations which are
                          \* over have left on disk, by kind (their names
                          \* are unique and no later step reads them)
    last,                 \* what the step just taken delivered to a caller:
                          \* "returned", the exception raised, or NoLast
    nextUuid,             \* uuid4() never repeats: the next fresh value
    callsLeft,            \* bound on the number of calls
    pre,                  \* history: slot and user.dic when the thread locked
    hist,                 \* history: identifiers returned, identifiers deleted,
                          \* whether every call so far was an apply_word,
                          \* whether an update_dict has raised,
                          \* whether a _write_to_json has raised
    aivm_calls,           \* the calls install_aivm has made on aivm_manager
    install_log           \* the requests POST /aivm_models/install has
                          \* handled, each with its response

vars == <<is_pytest, win32, nBase, storeFile, compiledFile, slot,
          mutex_user_dict, mutex_openjtalk_dict, pc, call, new_dict,
          word_uuid, csv_text, tmp_csv, tmp_compiled, litter, last, nextUuid,
          callsLeft, pre, hist, aivm_calls, install_log>>

env == <<is_pytest, win32, nBase>>
files == <<storeFile, compiledFile, slot>>
tmps == <<tmp_csv, tmp_compiled>>
locals == <<new_dict, word_uuid, csv_text>>
router == <<aivm_calls, install_log>>

NoKey == <<0, Canon>>
\* writes / updates count the store writes and update_dict invocations of the call
NoCall == [op |-> "none", prop |-> PropA, id |-> NoKey, data |-> << >>,
           override |-> FALSE, writes |-> 0, updates |-> 0]
NoLast == "none"
NoPre == [slot |-> NoDict, compiled |-> NoFile]

\* the store files a previous run of the engine can have left behind
InitStores == {NoFile, write_to_json(<< <<<<101, Canon>>, RecA>> >>)}

InitCommon ==
    \* under pytest on Windows, or the engine proper with and without base
    \* lexicon files (pytest elsewhere runs as the engine with one base file)
    /\ \E e \in {<<TRUE, TRUE, 1>>, <<FALSE, FALSE, 0>>, <<FALSE, FALSE, 1>>} :
          is_pytest = e[1] /\ win32 = e[2] /\ nBase = e[3]
    /\ storeFile \in InitStores
    \* __init__ ends with update_dict(): it compiled and registered the store
    \* unless it returned early (lines 112-113 and 134-136)
    /\ IF (is_pytest /\ win32) \/ (~is_pytest /\ nBase = 0)
       THEN compiledFile = NoFile /\ slot = NoDict
       ELSE /\ compiledFile =
                   mecab_dict_index(
                       [kind |-> "csv",
                        body |-> CsvText(IF is_pytest THEN 1 ELSE nBase,
                                         read_dict(storeFile))])
            /\ slot = compiledFile
    /\ mutex_user_dict = NoThread
    /\ mutex_openjtalk_dict = NoThread
    /\ call = [t \in Threads |-> NoCall]
    /\ new_dict = [t \in Threads |-> << >>]
    /\ word_uuid = [t \in Threads |-> NoKey]
    /\ csv_text = [t \in Threads |-> << >>]
    /\ tmp_csv = [t \in Threads |-> NoFile]
    /\ tmp_compiled = [t \in Threads |-> NoFile]
    /\ litter = {}
    /\ last = NoLast
    /\ nextUuid = 1
    /\ callsLeft = MaxCalls
    /\ pre = [t \in Threads |-> NoPre]
    /\ hist = [returned |-> {}, deleted |-> {}, onlyApply |-> TRUE,
               udFailed |-> FALSE, wrFailed |-> FALSE]
    /\ aivm_calls = << >>
    /\ install_log = << >>

\* every thread serves requests
Init == InitCommon /\ pc = [t \in Threads |-> "idle"]

\* a single caller: thread 1 serves all requests, the others never run
InitSeq == InitCommon /\ pc = [t \in Threads |-> IF t = 1 THEN "idle" ELSE "off"]

(* ------------------------------ locks ---------------------------------- *)
\* mutant of CanAcquire: acquire() does not wait
CanAcquireAlways(lock) == TRUE

\* threading.Lock.acquire() blocks until the lock is free
CanAcquire(lock) == lock = NoThread

\* mutant of Released: the wrapper has no finally, the lock is kept
ReleasedNot(t) == t

\* mutex_wrapper's finally: lock.release()
Released(t) == NoThread

(* --------------------------- call and return --------------------------- *)
\* positions inside update_dict's body, from the staging to the cleanup
UdBodyPcs == {"ud_read_acq", "ud_read_body", "ud_csv", "ud_compile",
              "ud_unset", "ud_replace", "ud_register"}

\* a request handler calls a method of UserDictionary
StartCall(t, c, firstPc) ==
    /\ pc[t] = "idle"
    \* the worker pool hands the request to its first idle worker
    /\ \A u \in Threads : u < t => pc[u] # "idle"
    /\ callsLeft > 0
    /\ callsLeft' = callsLeft - 1
    /\ call' = [call EXCEPT ![t] = c]
    /\ pc' = [pc EXCEPT ![t] = firstPc]
    /\ last' = NoLast
    /\ hist' = [hist EXCEPT !.onlyApply = @ /\ c.op = "apply_word"]
    /\ UNCHANGED <<router, env, files, mutex_user_dict, mutex_openjtalk_dict, locals, tmps, litter,
                   nextUuid, pre>>

\* mutant of Complete: the exception is logged and swallowed (no "raise e")
CompleteSwallowing(t, e) ==
    /\ pc' = [pc EXCEPT ![t] = "idle"]
    /\ last' = "returned"
    /\ hist' = [hist EXCEPT
                   !.returned = IF word_uuid[t] # NoKey
                                THEN @ \cup {word_uuid[t]} ELSE @]
    /\ call' = [call EXCEPT ![t] = NoCall]
    /\ new_dict' = [new_dict EXCEPT ![t] = << >>]
    /\ word_uuid' = [word_uuid EXCEPT ![t] = NoKey]
    /\ csv_text' = [csv_text EXCEPT ![t] = << >>]
    /\ pre' = [pre EXCEPT ![t] = NoPre]

\* the call of thread t returns (e = NoErr) or raises e; its frame is dropped.
\* apply_word, the one method with a word_uuid, returns it.
Complete(t, e) ==
    /\ pc' = [pc EXCEPT ![t] = "idle"]
    /\ last' = IF e = NoErr THEN "returned" ELSE e
    /\ hist' = [hist EXCEPT
                   !.returned = IF e = NoErr /\ word_uuid[t] # NoKey
                                THEN @ \cup {word_uuid[t]} ELSE @,
                   !.udFailed = @ \/ (e # NoErr /\ pc[t] \in {"ud_acq"} \cup UdBodyPcs),
                   !.wrFailed = @ \/ (e # NoErr /\ pc[t] = "write_body")]
    /\ call' = [call EXCEPT ![t] = NoCall]
    /\ new_dict' = [new_dict EXCEPT ![t] = << >>]
    /\ word_uuid' = [word_uuid EXCEPT ![t] = NoKey]
    /\ csv_text' = [csv_text EXCEPT ![t] = << >>]
    /\ pre' = [pre EXCEPT ![t] = NoPre]

\* mutant of Mutated: the method goes on to update_dict without the write
MutatedUnwritten(t, c, d) ==
    /\ pc' = [pc EXCEPT ![t] = "ud_acq"]
    /\ call' = [call EXCEPT ![t] = c]
    /\ new_dict' = [new_dict EXCEPT ![t] = d]
    /\ last' = NoLast
    /\ UNCHANGED <<hist, pre, csv_text>>

\* the call of thread t, its arguments being c, has built the dict d to write
Mutated(t, c, d) ==
    /\ pc' = [pc EXCEPT ![t] = "write_acq"]
    /\ call' = [call EXCEPT ![t] = c]
    /\ new_dict' = [new_dict EXCEPT ![t] = d]
    /\ last' = NoLast
    /\ UNCHANGED <<hist, pre, csv_text>>

\* identifiers a caller can know: imported ones and those uuid4 has produced
KnownIds == {k \in ImportKeys : k[2] = Canon} \cup {<<i, Canon>> : i \in 1..(nextUuid - 1)}

\* the arguments of the CRUD methods are first used after read_dict has
\* returned: they are drawn there (ApplyWordMutate, RewriteWordMutate,
\* DeleteWordMutate, ImportUserDictMerge)
ApplyWordCall(t) ==
    /\ pc[t] = "idle"
    /\ StartCall(t, [NoCall EXCEPT !.op = "apply_word"], "read_acq")

RewriteWordCall(t) ==
    /\ pc[t] = "idle"
    /\ StartCall(t, [NoCall EXCEPT !.op = "rewrite_word"], "read_acq")

DeleteWordCall(t) ==
    /\ pc[t] = "idle"
    /\ StartCall(t, [NoCall EXCEPT !.op = "delete_word"], "read_acq")

ReadDictCall(t) ==
    /\ pc[t] = "idle"
    /\ StartCall(t, [NoCall EXCEPT !.op = "read_dict"], "read_acq")

UpdateDictCall(t) ==
    /\ pc[t] = "idle"
    /\ StartCall(t, [NoCall EXCEPT !.op = "update_dict", !.updates = 1], "ud_acq")

\* the requests the validation loop lets through, and what it raises for the
\* others
ValidImportDicts == {d \in ImportDicts : ValidateImport(d) = "ok"}

ImportRejections == {ValidateImport(d) : d \in ImportDicts} \ {"ok"}

\* import_user_dict up to its call of read_dict: the validation loop (lines
\* 229-253) either raises, and the call is over, or lets dict_data through
ImportUserDictCall(t) ==
    /\ pc[t] = "idle"
    /\ callsLeft > 0
    /\ \/ \E d \in ValidImportDicts :
             StartCall(t, [NoCall EXCEPT !.op = "import_user_dict", !.data = d],
                       "read_acq")
       \/ \E r \in ImportRejections :
             /\ \A u \in Threads : u < t => pc[u] # "idle"
             /\ callsLeft' = callsLeft - 1
             /\ last' = r
             /\ hist' = [hist EXCEPT !.onlyApply = FALSE]
             /\ UNCHANGED <<router, env, files, mutex_user_dict, mutex_openjtalk_dict,
                            pc, call, locals, tmps, litter, nextUuid, pre>>

(* ------------------------- read_dict (locked) -------------------------- *)
\* mutex_wrapper(mutex_user_dict): lock.acquire() before read_dict's body
ReadDictAcquire(t) ==
    /\ pc[t] \in {"read_acq", "ud_read_acq"}
    /\ CanAcquire(mutex_user_dict)
    /\ mutex_user_dict' = t
    /\ pc' = [pc EXCEPT ![t] = IF pc[t] = "read_acq" THEN "read_body" ELSE "ud_read_body"]
    /\ last' = NoLast
    /\ UNCHANGED <<router, env, files, mutex_openjtalk_dict, call, locals, tmps, litter,
                   nextUuid, callsLeft, pre, hist>>

\* read_dict's body returns to the method op and the wrapper releases the lock
ReadReturns(t, op) ==
    /\ pc[t] = "read_body"
    /\ call[t].op = op
    /\ ~ReadDictRaises(storeFile)
    /\ mutex_user_dict' = Released(t)

\* read_dict called from outside
ReadDictBody(t) ==
    /\ ReadReturns(t, "read_dict")
    /\ Complete(t, NoErr)
    /\ UNCHANGED <<router, env, files, mutex_openjtalk_dict, tmps, litter, nextUuid, callsLeft>>

\* mutant of ReadDictRaise: the wrapper releases after a normal return only
\* (no try/finally), an exception leaves the lock taken
ReadDictRaiseHoldingLock(t) ==
    /\ pc[t] = "read_body"
    /\ Exists(storeFile)
    /\ mutex_user_dict' = mutex_user_dict
    /\ Complete(t, "ReadError")
    /\ UNCHANGED <<router, env, files, mutex_openjtalk_dict, tmps, litter, nextUuid, callsLeft>>

\* open/json.load/validate_python/UUID raise in read_dict's body, whoever
\* called it; the wrapper releases the lock
ReadDictRaise(t) ==
    /\ pc[t] = "read_body"
    /\ Exists(storeFile)
    /\ mutex_user_dict' = Released(t)
    /\ Complete(t, "ReadError")
    /\ UNCHANGED <<router, env, files, mutex_openjtalk_dict, tmps, litter, nextUuid, callsLeft>>

(* ------- the CRUD methods from read_dict's return to _write_to_json ---- *)
\* apply_word lines 273-275
ApplyWordMutate(t) ==
    /\ ReadReturns(t, "apply_word")
    /\ \E p \in WordProperties :
          IF CreateWordValid(p)
          THEN /\ Mutated(t, [call[t] EXCEPT !.prop = p],
                          DictSet(read_dict(storeFile), <<nextUuid, Canon>>,
                                  create_word(p)))
               /\ word_uuid' = [word_uuid EXCEPT ![t] = <<nextUuid, Canon>>]
               /\ nextUuid' = nextUuid + 1
          ELSE \* the uuid4() value is discarded with the frame
               /\ Complete(t, "UserDictInputError")
               /\ UNCHANGED nextUuid
    /\ UNCHANGED <<router, env, files, mutex_openjtalk_dict, tmps, litter, callsLeft>>

\* mutant of RewriteWordMutate: the presence check of line 287 is missing
RewriteWordUpsert(t) ==
    /\ ReadReturns(t, "rewrite_word")
    /\ \E id \in KnownIds, p \in WordProperties :
          IF ~CreateWordValid(p)
          THEN Complete(t, "UserDictInputError")
          ELSE /\ Mutated(t, [call[t] EXCEPT !.id = id, !.prop = p],
                          DictSet(read_dict(storeFile), id, create_word(p)))
               /\ UNCHANGED word_uuid
    /\ UNCHANGED <<router, env, files, mutex_openjtalk_dict, tmps, litter, nextUuid, callsLeft>>

\* rewrite_word lines 286-289
RewriteWordMutate(t) ==
    /\ ReadReturns(t, "rewrite_word")
    /\ \E id \in KnownIds, p \in WordProperties :
          LET old_dict == read_dict(storeFile)
          IN  IF id \notin Keys(old_dict)
              THEN Complete(t, "RewriteNotFound")      \* line 288
              ELSE IF ~CreateWordValid(p)
              THEN Complete(t, "UserDictInputError")
              ELSE /\ Mutated(t, [call[t] EXCEPT !.id = id, !.prop = p],
                              DictSet(old_dict, id, create_word(p)))
                   /\ UNCHANGED word_uuid
    /\ UNCHANGED <<router, env, files, mutex_openjtalk_dict, tmps, litter, nextUuid, callsLeft>>

\* delete_word lines 298-301
DeleteWordMutate(t) ==
    /\ ReadReturns(t, "delete_word")
    /\ \E id \in KnownIds :
          LET old_dict == read_dict(storeFile)
          IN  IF id \notin Keys(old_dict)
              THEN Complete(t, "DeleteNotFound")       \* line 300
              ELSE /\ Mutated(t, [call[t] EXCEPT !.id = id], DictDel(old_dict, id))
                   /\ UNCHANGED word_uuid
    /\ UNCHANGED <<router, env, files, mutex_openjtalk_dict, tmps, litter, nextUuid, callsLeft>>

\* import_user_dict lines 256-264
ImportUserDictMerge(t) ==
    /\ ReadReturns(t, "import_user_dict")
    /\ \E ov \in BOOLEAN :
          Mutated(t, [call[t] EXCEPT !.override = ov],
                  ImportMerge(read_dict(storeFile), call[t].data, ov))
    /\ UNCHANGED <<router, env, files, mutex_openjtalk_dict, word_uuid, tmps, litter, nextUuid,
                   callsLeft>>

(* ----------------------- _write_to_json (locked) ----------------------- *)
\* mutant of WriteToJsonAcquire: _write_to_json is not wrapped, it does not
\* wait for the store lock
WriteToJsonAcquireUnguarded(t) ==
    /\ pc[t] = "write_acq"
    /\ mutex_user_dict' = t
    /\ pc' = [pc EXCEPT ![t] = "write_body"]
    /\ last' = NoLast
    /\ UNCHANGED <<router, env, files, mutex_openjtalk_dict, call, locals, tmps, litter,
                   nextUuid, callsLeft, pre, hist>>

\* mutex_wrapper(mutex_user_dict): lock.acquire() before _write_to_json's body
WriteToJsonAcquire(t) ==
    /\ pc[t] = "write_acq"
    /\ CanAcquire(mutex_user_dict)
    /\ mutex_user_dict' = t
    /\ pc' = [pc EXCEPT ![t] = "write_body"]
    /\ last' = NoLast
    /\ UNCHANGED <<router, env, files, mutex_openjtalk_dict, call, locals, tmps, litter,
                   nextUuid, callsLeft, pre, hist>>

\* mutant of WriteToJsonBody: the write is put off until update_dict has
\* succeeded, the file is not written here
WriteToJsonBodyDeferred(t) ==
    /\ pc[t] = "write_body"
    /\ mutex_user_dict' = Released(t)
    /\ \/ /\ storeFile' = storeFile
          /\ pc' = [pc EXCEPT ![t] = "ud_acq"]
          /\ call' = [call EXCEPT ![t] = [NoCall EXCEPT !.op = "after_write",
                                                        !.writes = call[t].writes + 1,
                                                        !.updates = call[t].updates + 1]]
          /\ new_dict' = [new_dict EXCEPT ![t] = << >>]
          /\ last' = NoLast
          /\ hist' = hist
          /\ UNCHANGED <<word_uuid, csv_text, pre>>
       \/ /\ storeFile' \in {storeFile, Partial}
          /\ Complete(t, "StoreWriteError")
    /\ UNCHANGED <<router, env, compiledFile, slot, mutex_openjtalk_dict, tmps, litter, nextUuid,
                   callsLeft>>

\* _write_to_json's body and the release of the lock.  When write_bytes has
\* written the file, what is left of the calling method is the same for the
\* four of them: call update_dict and return (apply_word: return word_uuid);
\* the arguments and the dict are dropped here.  When the conversion or
\* write_bytes raises, the exception leaves the calling method, which does
\* not call update_dict: the file is as it was (it could not be opened) or
\* it was truncated and holds at most the beginning of the document.
WriteToJsonBody(t) ==
    /\ pc[t] = "write_body"
    /\ mutex_user_dict' = Released(t)
    /\ \/ /\ storeFile' = write_to_json(new_dict[t])
          /\ pc' = [pc EXCEPT ![t] = "ud_acq"]
          /\ call' = [call EXCEPT ![t] = [NoCall EXCEPT !.op = "after_write",
                                                        !.writes = call[t].writes + 1,
                                                        !.updates = call[t].updates + 1]]
          /\ new_dict' = [new_dict EXCEPT ![t] = << >>]
          /\ last' = NoLast
          \* identifiers a delete_word has removed and no later write has
          \* brought back
          /\ hist' = [hist EXCEPT !.deleted =
                         (@ \cup (IF call[t].op = "delete_word" THEN {call[t].id} ELSE {}))
                             \ Keys(read_dict(storeFile'))]
          /\ UNCHANGED <<word_uuid, csv_text, pre>>
       \/ /\ storeFile' \in {storeFile, Partial}
          /\ Complete(t, "StoreWriteError")
    /\ UNCHANGED <<router, env, compiledFile, slot, mutex_openjtalk_dict, tmps, litter, nextUuid,
                   callsLeft>>

(* --------------------------- update_dict ------------------------------- *)
\* mutant of Finally: update_dict is left with the compilation lock taken
FinallyKeepsLock(t, e, csv, compiled) ==
    /\ mutex_openjtalk_dict' = t
    /\ tmp_csv' = [tmp_csv EXCEPT ![t] = NoFile]
    /\ tmp_compiled' = [tmp_compiled EXCEPT ![t] = NoFile]
    /\ \/ /\ litter' = litter
          /\ Complete(t, e)
       \/ /\ csv
          /\ litter' = litter \cup {"csv"} \cup (IF compiled THEN {"compiled"} ELSE {})
          /\ Complete(t, "UnlinkError")
       \/ /\ compiled
          /\ litter' = litter \cup {"compiled"}
          /\ Complete(t, "UnlinkError")

\* update_dict's finally block (lines 196-201), the wrapper's release of the
\* lock and the end of the call.  The block is entered with e in flight
\* (NoErr: the try block returned); csv and compiled tell whether the files
\* at tmp_csv_path and tmp_compiled_path exist then.  Each file that exists
\* is unlinked, the csv file first.  When both unlinks succeed (or there was
\* nothing to unlink) the call ends as it would have, returning or raising
\* e.  When tmp_csv_path.unlink() raises (line 199), line 201 is not
\* reached: both files stay and the call raises the unlink's exception in
\* place of e.  When tmp_compiled_path.unlink() raises (line 201), the
\* compiled file stays and the call raises likewise.  The paths are locals
\* of the invocation: what it leaves on disk is litter from then on.
Finally(t, e, csv, compiled) ==
    /\ mutex_openjtalk_dict' = Released(t)
    /\ tmp_csv' = [tmp_csv EXCEPT ![t] = NoFile]
    /\ tmp_compiled' = [tmp_compiled EXCEPT ![t] = NoFile]
    /\ \/ /\ litter' = litter
          /\ Complete(t, e)
       \/ /\ csv
          /\ litter' = litter \cup {"csv"} \cup (IF compiled THEN {"compiled"} ELSE {})
          /\ Complete(t, "UnlinkError")
       \/ /\ compiled
          /\ litter' = litter \cup {"compiled"}
          /\ Complete(t, "UnlinkError")

\* a statement of the try block raises e with the temporary files as the
\* last completed statement left them: the except block logs and re-raises,
\* the finally block runs, and the exception goes through the calling method
\* to its caller
Raises(t, e) == Finally(t, e, Exists(tmp_csv[t]), Exists(tmp_compiled[t]))

\* the try block is left without an exception: the finally block runs and
\* update_dict returns to the calling method, which returns to its caller
Returns(t) == Finally(t, NoErr, Exists(tmp_csv[t]), Exists(tmp_compiled[t]))

\* mutant of UpdateDictAcquire: the check of line 134 is missing, an empty
\* list of base files is compiled like any other
UpdateDictAcquireNoBaseCheck(t) ==
    /\ pc[t] = "ud_acq"
    /\ CanAcquire(mutex_openjtalk_dict)
    /\ IF is_pytest /\ win32
       THEN /\ mutex_openjtalk_dict' = Released(t)
            /\ Complete(t, NoErr)
            /\ UNCHANGED <<tmp_csv, tmp_compiled, litter>>
       ELSE \/ /\ mutex_openjtalk_dict' = t
               /\ pre' = [pre EXCEPT ![t] = [slot |-> slot, compiled |-> compiledFile]]
               /\ csv_text' = [csv_text EXCEPT ![t] =
                                  CsvBase(IF is_pytest THEN 1 ELSE nBase)]
               /\ pc' = [pc EXCEPT ![t] = "ud_read_acq"]
               /\ last' = NoLast
               /\ UNCHANGED <<hist, call, new_dict, word_uuid, tmp_csv, tmp_compiled, litter>>
            \/ Raises(t, "BaseReadError")
    /\ UNCHANGED <<router, env, files, mutex_user_dict, nextUuid, callsLeft>>

\* mutex_wrapper(mutex_openjtalk_dict): lock.acquire(), then lines 108-147 of
\* update_dict: the early returns and the reading of the base lexicon into
\* csv_text
UpdateDictAcquire(t) ==
    /\ pc[t] = "ud_acq"
    /\ CanAcquire(mutex_openjtalk_dict)
    /\ IF is_pytest /\ win32
       THEN \* line 113, before the try block: the wrapper releases the lock
            /\ mutex_openjtalk_dict' = Released(t)
            /\ Complete(t, NoErr)
            /\ UNCHANGED <<tmp_csv, tmp_compiled, litter>>
       ELSE IF ~is_pytest /\ nBase = 0
       THEN \* line 136, return inside the try block
            Returns(t)
       ELSE \/ /\ mutex_openjtalk_dict' = t
               /\ pre' = [pre EXCEPT ![t] = [slot |-> slot, compiled |-> compiledFile]]
               /\ csv_text' = [csv_text EXCEPT ![t] =
                                  CsvBase(IF is_pytest THEN 1 ELSE nBase)]
               /\ pc' = [pc EXCEPT ![t] = "ud_read_acq"]
               /\ last' = NoLast
               /\ UNCHANGED <<hist, call, new_dict, word_uuid, tmp_csv, tmp_compiled, litter>>
            \/ \* opening or decompressing a base file raises
               Raises(t, "BaseReadError")
    /\ UNCHANGED <<router, env, files, mutex_user_dict, nextUuid, callsLeft>>

\* line 150 and lines 151-175: read_dict's body called from update_dict
\* returns, the wrapper releases the store lock, and update_dict builds
\* csv_text from what it was given; or the body raises
UpdateDictRead(t) ==
    /\ pc[t] = "ud_read_body"
    /\ mutex_user_dict' = Released(t)
    /\ \/ /\ ~ReadDictRaises(storeFile)
          /\ csv_text' = [csv_text EXCEPT ![t] =
                             @ \o CsvUserLines(read_dict(storeFile))]
          /\ pc' = [pc EXCEPT ![t] = "ud_csv"]
          /\ last' = NoLast
          /\ UNCHANGED <<mutex_openjtalk_dict, litter, call, new_dict, word_uuid, tmps, pre, hist>>
       \/ /\ Exists(storeFile)
          /\ Raises(t, "ReadError")
    /\ UNCHANGED <<router, env, files, nextUuid, callsLeft>>

\* line 177: tmp_csv_path.write_text(csv_text)
UpdateDictWriteCsv(t) ==
    /\ pc[t] = "ud_csv"
    /\ \/ /\ tmp_csv' = [tmp_csv EXCEPT ![t] = [kind |-> "csv", body |-> csv_text[t]]]
          /\ pc' = [pc EXCEPT ![t] = "ud_compile"]
          /\ last' = NoLast
          /\ UNCHANGED <<mutex_openjtalk_dict, litter, tmp_compiled, call, locals, pre, hist>>
       \/ \* write_text raises, having created the file or not
          \E made \in BOOLEAN : Finally(t, "WriteError", made, FALSE)
    /\ UNCHANGED <<router, env, files, mutex_user_dict, nextUuid, callsLeft>>

\* lines 180-182: the external compiler and the test of its output file
UpdateDictCompile(t) ==
    /\ pc[t] = "ud_compile"
    /\ \/ /\ tmp_compiled' = [tmp_compiled EXCEPT ![t] = mecab_dict_index(tmp_csv[t])]
          /\ pc' = [pc EXCEPT ![t] = "ud_unset"]
          /\ last' = NoLast
          /\ UNCHANGED <<mutex_openjtalk_dict, litter, tmp_csv, call, locals, pre, hist>>
       \/ \* mecab_dict_index raises, leaving an unfinished file or none
          \E made \in BOOLEAN : Finally(t, "CompilerRaised", TRUE, made)
       \/ \* mecab_dict_index returns without having written the file
          Raises(t, "CompilerNoOutput")
    /\ UNCHANGED <<router, env, files, mutex_user_dict, nextUuid, callsLeft>>

\* mutant of UpdateDictUnset: the active dictionary is not detached
UpdateDictUnsetSkipped(t) ==
    /\ pc[t] = "ud_unset"
    /\ \/ /\ slot' = slot
          /\ pc' = [pc EXCEPT ![t] = "ud_replace"]
          /\ last' = NoLast
          /\ UNCHANGED <<mutex_openjtalk_dict, litter, tmp_csv, tmp_compiled, call, locals,
                         pre, hist>>
       \/ /\ UNCHANGED slot
          /\ Raises(t, "UnsetError")
    /\ UNCHANGED <<router, env, storeFile, compiledFile, mutex_user_dict, nextUuid, callsLeft>>

\* line 185: pyopenjtalk.unset_user_dict()
UpdateDictUnset(t) ==
    /\ pc[t] = "ud_unset"
    /\ \/ /\ slot' = NoDict
          /\ pc' = [pc EXCEPT ![t] = "ud_replace"]
          /\ last' = NoLast
          /\ UNCHANGED <<mutex_openjtalk_dict, litter, tmp_csv, tmp_compiled, call, locals,
                         pre, hist>>
       \/ /\ UNCHANGED slot
          /\ Raises(t, "UnsetError")
    /\ UNCHANGED <<router, env, storeFile, compiledFile, mutex_user_dict, nextUuid, callsLeft>>

\* mutant of UpdateDictReplace: the rename misses the permanent path
UpdateDictReplaceElsewhere(t) ==
    /\ pc[t] = "ud_replace"
    /\ \/ /\ compiledFile' = compiledFile
          /\ tmp_compiled' = [tmp_compiled EXCEPT ![t] = NoFile]
          /\ pc' = [pc EXCEPT ![t] = "ud_register"]
          /\ last' = NoLast
          /\ UNCHANGED <<mutex_openjtalk_dict, litter, tmp_csv, call, locals, pre, hist>>
       \/ /\ UNCHANGED compiledFile
          /\ Raises(t, "ReplaceError")
    /\ UNCHANGED <<router, env, storeFile, slot, mutex_user_dict, nextUuid, callsLeft>>

\* line 186: tmp_compiled_path.replace(compiled_dict_path)
UpdateDictReplace(t) ==
    /\ pc[t] = "ud_replace"
    /\ \/ /\ compiledFile' = tmp_compiled[t]
          /\ tmp_compiled' = [tmp_compiled EXCEPT ![t] = NoFile]
          /\ pc' = [pc EXCEPT ![t] = "ud_register"]
          /\ last' = NoLast
          /\ UNCHANGED <<mutex_openjtalk_dict, litter, tmp_csv, call, locals, pre, hist>>
       \/ /\ UNCHANGED compiledFile
          /\ Raises(t, "ReplaceError")
    /\ UNCHANGED <<router, env, storeFile, slot, mutex_user_dict, nextUuid, callsLeft>>

\* lines 187-201: register the permanent file with the analyzer; then the
\* finally block and the return
UpdateDictRegister(t) ==
    /\ pc[t] = "ud_register"
    /\ \/ /\ slot' = IF Exists(compiledFile) THEN compiledFile ELSE slot
          /\ Returns(t)
       \/ /\ Exists(compiledFile)
          /\ UNCHANGED slot
          /\ Raises(t, "RegisterError")
    /\ UNCHANGED <<router, env, storeFile, compiledFile, mutex_user_dict, nextUuid, callsLeft>>

(* ------------- routers/aivm_models.py: POST /aivm_models/install ------- *)
\* a form field that was not sent
None == "None"
\* the uploads and the urls of the requests
Uploads == {"aivmx1"}
Urls == {"url1"}

\* mutant of InstallAivmDispatch: the url is looked at before the file
InstallAivmDispatchUrlFirst(file, url) ==
    IF url # None THEN <<"install_aivm_from_url", url>>
    ELSE IF file # None THEN <<"install_aivm", file>>
    ELSE <<"HTTPException", "422">>

\* the if/elif/else of install_aivm (lines 56-64): the call it makes on
\* aivm_manager, with its argument, or the exception it raises
InstallAivmDispatch(file, url) ==
    IF file # None THEN <<"install_aivm", file>>
    ELSE IF url # None THEN <<"install_aivm_from_url", url>>
    ELSE <<"HTTPException", "422">>

\* everything the user dictionary owns
userDictVars == <<env, files, mutex_user_dict, mutex_openjtalk_dict, pc, call,
                  locals, tmps, litter, last, nextUuid, callsLeft, pre, hist>>

\* install_aivm handles one request; the installer it calls returns (the
\* response is 204) or raises, and its exception, whatever its status,
\* leaves the handler
InstallAivm ==
    /\ Len(install_log) < MaxRequests
    /\ \E file \in Uploads \cup {None}, url \in Urls \cup {None},
          installed \in BOOLEAN :
          LET d == InstallAivmDispatch(file, url)
          IN  IF d[1] = "HTTPException"
              THEN /\ installed = FALSE
                   /\ UNCHANGED aivm_calls
                   /\ install_log' =
                          Append(install_log,
                                 [file |-> file, url |-> url, status |-> d[2]])
              ELSE /\ aivm_calls' = Append(aivm_calls, d)
                   /\ install_log' =
                          Append(install_log,
                                 [file |-> file, url |-> url,
                                  status |-> IF installed THEN "204"
                                             ELSE "raised by the installer"])
    /\ UNCHANGED userDictVars

(* ------------------------------ system --------------------------------- *)
Next ==
    \E t \in Threads :
        \/ ApplyWordCall(t)
        \/ RewriteWordCall(t)
        \/ DeleteWordCall(t)
        \/ ImportUserDictCall(t)
        \/ ReadDictCall(t)
        \/ UpdateDictCall(t)
        \/ ReadDictAcquire(t)
        \/ ReadDictBody(t)
        \/ ReadDictRaise(t)
        \/ ApplyWordMutate(t)
        \/ RewriteWordMutate(t)
        \/ DeleteWordMutate(t)
        \/ ImportUserDictMerge(t)
        \/ WriteToJsonAcquire(t)
        \/ WriteToJsonBody(t)
        \/ UpdateDictAcquire(t)
        \/ UpdateDictRead(t)
        \/ UpdateDictWriteCsv(t)
        \/ UpdateDictCompile(t)
        \/ UpdateDictUnset(t)
        \/ UpdateDictReplace(t)
        \/ UpdateDictRegister(t)

Spec == Init /\ [][Next]_vars

SpecSeq == InitSeq /\ [][Next]_vars

\* requests to the install endpoint only, the user dictionary at rest
InitInstall == Init /\ ~is_pytest /\ nBase = 1 /\ storeFile = NoFile

SpecInstall == InitInstall /\ [][InstallAivm]_vars

\* the steps of a call that thread t is executing: everything but the
\* arrival of a request
ThreadStep(t) ==
    \/ ReadDictAcquire(t)
    \/ ReadDictBody(t)
    \/ ReadDictRaise(t)
    \/ ApplyWordMutate(t)
    \/ RewriteWordMutate(t)
    \/ DeleteWordMutate(t)
    \/ ImportUserDictMerge(t)
    \/ WriteToJsonAcquire(t)
    \/ WriteToJsonBody(t)
    \/ UpdateDictAcquire(t)
    \/ UpdateDictRead(t)
    \/ UpdateDictWriteCsv(t)
    \/ UpdateDictCompile(t)
    \/ UpdateDictUnset(t)
    \/ UpdateDictReplace(t)
    \/ UpdateDictRegister(t)

\* the interpreter runs every thread that can run: one that is not waiting,
\* or that waits in lock.acquire() for a lock that stays free; pyopenjtalk
\* and the file system return
SpecFair == Init /\ [][Next]_vars /\ \A t \in Threads : WF_vars(ThreadStep(t))

TypeOK ==
    /\ mutex_user_dict \in Threads \cup {NoThread}
    /\ mutex_openjtalk_dict \in Threads \cup {NoThread}
    /\ callsLeft \in 0..MaxCalls

(* ------------------------- vocabulary of the claims -------------------- *)
Running == {t \in Threads : pc[t] \notin {"idle", "off"}}

\* thread t takes the step that ends its call
Completes(t) == pc[t] \notin {"idle", "off"} /\ pc'[t] = "idle"

\* the mapping listWords (read_dict) returns for the current store file
Listed == read_dict(storeFile)

CompilerErrors == {"CompilerRaised", "CompilerNoOutput"}

\* what import_user_dict's validation loop raises
ValidationErrors == {"ValueError", "AssertionError"}

\* update_dict gets as far as compiling: not the early returns of lines 113
\* and 136
Compiles == ~(is_pytest /\ win32) /\ (is_pytest \/ nBase > 0)

\* the dictionary update_dict compiles from the store file
CompiledFrom(file) ==
    mecab_dict_index([kind |-> "csv",
                      body |-> CsvText(IF is_pytest THEN 1 ELSE nBase,
                                       read_dict(file))])

(* ------------------------------- C1 ------------------------------------ *)
\* C1: when only apply_word calls were made, concurrently, and all of them
\* are over, every identifier an apply_word returned is in the store (no add
\* is lost to another call's read-modify-write).
C1_NoLostAdd ==
    (hist.onlyApply /\ Running = {}) => hist.returned \subseteq Keys(Listed)

(* ------------------------------- C2 ------------------------------------ *)
\* positions of update_dict from its read of the store to the compiler's
\* return (lines 150-182)
StagingPcs == {"ud_read_body", "ud_csv", "ud_compile"}

\* C2: update_dict leaves the stage that reads the store, writes the csv
\* file and compiles it (lines 150-182) for the caller only by an exception,
\* which is what happens when the external compiler fails (mecab_dict_index
\* raises or leaves no output file); the analyzer's slot and the permanent
\* compiled file are then what they were when the invocation took the
\* compilation lock, whatever other threads did to the store meanwhile.
C2_CompilerFailureKeepsActive ==
    [][\A t \in Threads :
          (pc[t] \in StagingPcs /\ Completes(t))
              => /\ last' \notin {NoLast, "returned"}
                 /\ slot' = pre[t].slot
                 /\ compiledFile' = pre[t].compiled]_vars

\* a compiler failure has just been raised while a dictionary is registered,
\* and the store is no longer the one that dictionary was compiled from
C2_Witness ==
    /\ last \in CompilerErrors
    /\ slot # NoDict
    /\ Exists(compiledFile)
    /\ slot # CompiledFrom(storeFile)

(* ------------------------------- C3 ------------------------------------ *)
\* C3: whatever step of update_dict raised, when the exception reaches the
\* caller the analyzer's slot still holds the dictionary that was registered
\* when the invocation took the compilation lock.
C3_AnyFailureKeepsActive ==
    [][\A t \in Threads :
          (pc[t] \in UdBodyPcs /\ Completes(t) /\ last' # "returned")
              => slot' = pre[t].slot]_vars

(* ------------------------------- C4 ------------------------------------ *)
\* an entry of an import request that the validation rejects
InvalidEntry(e) == ValidateEntry(e[1], e[2]) # "ok"

\* positions of a method between its call of read_dict and its store write
StorePcs == {"read_acq", "read_body", "write_acq", "write_body"}

\* C4: an import_user_dict whose dict_data has an invalid entry, at whatever
\* position, never gets as far as reading or writing the store; the step in
\* which it is rejected leaves the store file, the compiled file, the slot and
\* both locks as they were, and starts nothing.
C4_ImportAllOrNothing ==
    /\ [](\A t \in Threads :
             (pc[t] \in StorePcs /\ call[t].op = "import_user_dict")
                 => \A i \in 1..Len(call[t].data) : ~InvalidEntry(call[t].data[i]))
    /\ [][(last' \in ValidationErrors /\ pc' = pc)
             => UNCHANGED <<storeFile, compiledFile, slot, mutex_user_dict,
                            mutex_openjtalk_dict>>]_vars

\* an import has been rejected while a store and an active dictionary exist
C4_Witness ==
    /\ last \in ValidationErrors
    /\ Exists(storeFile)
    /\ slot # NoDict

(* ------------------- the store before and after a write --------------- *)
\* thread t, running method op, takes the step that writes the store
Writes(t, op) == pc[t] = "write_body" /\ call[t].op = op /\ pc'[t] = "ud_acq"

\* the mapping listWords returns for the store file after the step
ListedNext == read_dict(storeFile')

\* every identifier of ks has in ListedNext the record it has in Listed
SameRecords(ks) == \A k \in ks : Get(ListedNext, k) = Get(Listed, k)

\* thread t, running method op, goes from read_dict's return to the write
Proceeds(t, op) == pc[t] = "read_body" /\ call[t].op = op /\ pc'[t] = "write_acq"

(* ------------------------------- C5 ------------------------------------ *)
\* the identifiers of an import request, and the records it has for one
IncomingIds(data) == {StrUUID(data[i][1]) : i \in 1..Len(data)}

IncomingRecords(data, k) ==
    {data[i][2] : i \in {j \in 1..Len(data) : StrUUID(data[j][1]) = k}}

\* C5: the write of a successful import_user_dict makes the store's key set
\* the union of the previous and the incoming identifiers; an identifier in
\* both has the incoming record if override, the previous one if not; the
\* others keep their own record.
C5_ImportMergeSemantics ==
    [][\A t \in Threads :
          Writes(t, "import_user_dict")
              => LET data == call[t].data
                     both == Keys(Listed) \cap IncomingIds(data)
                 IN  /\ Keys(ListedNext) = Keys(Listed) \cup IncomingIds(data)
                     /\ SameRecords(Keys(Listed) \ IncomingIds(data))
                     /\ \A k \in IncomingIds(data) \ Keys(Listed) :
                           Get(ListedNext, k) \in IncomingRecords(data, k)
                     /\ IF call[t].override
                        THEN \A k \in both :
                                Get(ListedNext, k) \in IncomingRecords(data, k)
                        ELSE SameRecords(both)]_vars

(* ------------------------------- C6 ------------------------------------ *)
\* C6: the write of apply_word adds exactly one entry: word_uuid was not a
\* key, it maps to the record created from the word property, every other
\* identifier keeps its record; and when apply_word returns word_uuid, the
\* store lists it.
C6_AddThenList ==
    [][\A t \in Threads :
          /\ Writes(t, "apply_word")
                => /\ word_uuid[t] \notin Keys(Listed)
                   /\ Keys(ListedNext) = Keys(Listed) \cup {word_uuid[t]}
                   /\ Get(ListedNext, word_uuid[t]) = create_word(call[t].prop)
                   /\ SameRecords(Keys(Listed))
          /\ (Completes(t) /\ last' = "returned" /\ word_uuid[t] # NoKey)
                => /\ word_uuid[t] \in Keys(ListedNext)
                   /\ word_uuid[t] \in hist'.returned]_vars

\* an apply_word has just returned an identifier that the store lists next
\* to an older entry
C6_Witness ==
    /\ last = "returned"
    /\ \E id \in hist.returned : id \in Keys(Listed) /\ Keys(Listed) # {id}

(* ------------------------------- C7 ------------------------------------ *)
\* C7: delete_word goes on to write only for an identifier that is in the
\* store, and its write removes exactly that identifier; an identifier once
\* deleted and not added again is not in the store, so that another
\* delete_word of it raises the not-found error, and that step changes
\* neither the store nor the compiled dictionary and follows no write and no
\* update_dict of the call.
C7_DeleteThenNotFound ==
    /\ [](hist.deleted \cap Keys(Listed) = {})
    /\ [][\A t \in Threads :
             /\ Proceeds(t, "delete_word") => call'[t].id \in Keys(Listed)
             /\ Writes(t, "delete_word")
                   => /\ call[t].id \in Keys(Listed)
                      /\ Keys(ListedNext) = Keys(Listed) \ {call[t].id}
                      /\ SameRecords(Keys(ListedNext))
             /\ (Completes(t) /\ last' = "DeleteNotFound")
                   => /\ UNCHANGED <<storeFile, compiledFile, slot>>
                      /\ call[t].writes = 0
                      /\ call[t].updates = 0]_vars

\* after a delete_word removed an identifier, a delete_word has just failed
\* with the not-found error
C7_Witness ==
    /\ last = "DeleteNotFound"
    /\ hist.deleted # {}

(* ------------------------------- C8 ------------------------------------ *)
\* C8: rewrite_word goes on to write only for an identifier that is in the
\* store; otherwise it raises the not-found error in a step that changes
\* neither the store nor the compiled dictionary and follows no write and no
\* update_dict of the call.  Its write replaces that identifier's record by
\* the one created from the word property and nothing else: the key set is
\* the same before and after.
C8_RewriteOnlyPresent ==
    [][\A t \in Threads :
          /\ Proceeds(t, "rewrite_word") => call'[t].id \in Keys(Listed)
          /\ (Completes(t) /\ last' = "RewriteNotFound")
                => /\ UNCHANGED <<storeFile, compiledFile, slot>>
                   /\ call[t].writes = 0
                   /\ call[t].updates = 0
          /\ Writes(t, "rewrite_word")
                => /\ Keys(ListedNext) = Keys(Listed)
                   /\ Get(ListedNext, call[t].id) = create_word(call[t].prop)
                   /\ SameRecords(Keys(Listed) \ {call[t].id})]_vars

\* a rewrite_word is about to write a record that differs from the stored
\* one, into a store that has another entry as well
C8_Witness ==
    \E t \in Threads :
        /\ pc[t] = "write_body"
        /\ call[t].op = "rewrite_word"
        /\ call[t].id \in Keys(Listed)
        /\ Get(Listed, call[t].id) # create_word(call[t].prop)
        /\ Keys(Listed) # {call[t].id}

(* ------------------------------- C9 ------------------------------------ *)
\* C9: at most one thread is inside update_dict's body (from the staging to
\* the cleanup), and that thread holds the compilation lock.
C9_OneRecompilation ==
    /\ Cardinality({t \in Threads : pc[t] \in UdBodyPcs}) <= 1
    /\ \A t \in Threads : pc[t] \in UdBodyPcs => mutex_openjtalk_dict = t

\* one thread is swapping the dictionary while another waits to recompile
C9_Witness ==
    \E t, u \in Threads :
        /\ pc[t] \in {"ud_unset", "ud_replace", "ud_register"}
        /\ pc[u] = "ud_acq"

(* ------------------------------- C10 ----------------------------------- *)
\* C10 as stated: no thread holds the store lock and the compilation lock at
\* the same time.
C10_NeverBothLocks ==
    \A t \in Threads : ~(mutex_user_dict = t /\ mutex_openjtalk_dict = t)

\* C10 as amended: a thread holds both locks only inside the read_dict that
\* update_dict calls; the store lock is held only inside the bodies of
\* read_dict and _write_to_json, and the compilation lock is never taken by
\* a thread that holds the store lock.
C10_NestedOnlyInUpdateRead ==
    /\ [](\A t \in Threads :
             /\ (mutex_user_dict = t /\ mutex_openjtalk_dict = t)
                   => pc[t] = "ud_read_body"
             /\ mutex_user_dict = t
                   => pc[t] \in {"read_body", "write_body", "ud_read_body"})
    /\ [][\A t \in Threads :
             (mutex_openjtalk_dict # t /\ mutex_openjtalk_dict' = t)
                 => mutex_user_dict # t]_vars

\* update_dict is reading the store: its thread holds both locks
C10_Witness ==
    \E t \in Threads : mutex_user_dict = t /\ mutex_openjtalk_dict = t

(* ------------------------------- C11 ----------------------------------- *)
\* C11: a thread that is not inside update_dict's body (it has returned, it
\* has raised, or it has not got that far) has neither a temporary csv file
\* nor a temporary compiled file at the paths of an invocation, and no
\* invocation that is over has left one on disk; so when no recompilation is
\* in progress no temporary file exists.
C11_TempFilesCleaned ==
    /\ \A t \in Threads :
          pc[t] \notin UdBodyPcs => tmp_csv[t] = NoFile /\ tmp_compiled[t] = NoFile
    /\ litter = {}

(* ------------------------------- C12 ----------------------------------- *)
\* C12: when every call is over and none was ended by an exception of
\* update_dict or of _write_to_json, the dictionary in the analyzer's slot is
\* the one compiled from the store as it is now, although a recompilation
\* may have compiled a snapshot that another thread's write had already
\* replaced (where update_dict returns before compiling, nothing is ever
\* registered).
C12_EventuallyConsistent ==
    (Running = {} /\ ~hist.udFailed /\ ~hist.wrFailed)
        => slot = IF Compiles THEN CompiledFrom(storeFile) ELSE NoDict

\* two concurrent mutations are over, both recompilations succeeded, and the
\* store holds what both wrote
C12_Witness ==
    /\ Running = {}
    /\ ~hist.udFailed
    /\ ~hist.wrFailed
    /\ Compiles
    /\ callsLeft = 0
    /\ Cardinality(hist.returned \cap Keys(Listed)) >= 2
    /\ slot = CompiledFrom(storeFile)

(* ------------------------------- C13 ----------------------------------- *)
\* positions of a thread that has invoked update_dict
UdPcs == {"ud_acq"} \cup UdBodyPcs

\* C13: a mutating method has written nothing and invoked no update_dict
\* while it is between its call of read_dict and its write; it is in
\* update_dict only after exactly one write and on its one invocation; it
\* returns only from there; when it ends before its write (a check failed,
\* or the store could not be read) that step changes neither the store nor
\* the compiled dictionary; and when its write raises it ends there, by
\* that exception, having invoked no update_dict.
C13_OneWriteThenOneUpdate ==
    /\ [](\A t \in Threads :
             /\ pc[t] \in StorePcs
                   => call[t].writes = 0 /\ call[t].updates = 0
             /\ (pc[t] \in UdPcs /\ call[t].op # "update_dict")
                   => /\ call[t].op = "after_write"
                      /\ call[t].writes = 1
                      /\ call[t].updates = 1)
    /\ [][\A t \in Threads :
             /\ (Completes(t) /\ last' = "returned"
                    /\ call[t].op \notin {"read_dict", "update_dict"})
                   => /\ pc[t] \in UdPcs
                      /\ call[t].writes = 1
                      /\ call[t].updates = 1
             /\ (Completes(t) /\ pc[t] \in StorePcs)
                   => /\ call[t].writes = 0
                      /\ call[t].updates = 0
                      /\ call[t].op # "read_dict" => last' # "returned"
                      /\ UNCHANGED <<compiledFile, slot>>
                      /\ pc[t] # "write_body" => UNCHANGED storeFile
                      /\ pc[t] = "write_body" => last' = "StoreWriteError"
             /\ (pc[t] \in StorePcs /\ pc'[t] \in UdPcs)
                   => /\ pc[t] = "write_body"
                      /\ storeFile' = write_to_json(new_dict[t])]_vars

\* a mutating method is at the last step of its update_dict, after its write
C13_Witness ==
    \E t \in Threads :
        /\ pc[t] = "ud_register"
        /\ call[t].op = "after_write"
        /\ call[t].writes = 1
        /\ call[t].updates = 1

(* ------------------------------- C14 ----------------------------------- *)
\* the steps of update_dict that swap the dictionary
SwapPcs == {"ud_unset", "ud_replace", "ud_register"}

\* C14: a recompilation that compiles goes through csv write, compile,
\* detach, rename, register in that order under the compilation lock: the
\* compiler runs on the csv file written from the text the invocation
\* built; before the detach the
\* compiled temporary file exists and nothing has been swapped; before the
\* rename the slot is empty; before the registration the permanent file is
\* the compiled one and the temporary one is gone.  The slot is given a
\* dictionary only by the registration, the last step of a recompilation
\* that returns (or of one whose cleanup then fails to unlink a temporary
\* file), which leaves the slot holding the permanent file; the slot and the
\* permanent file change in no step outside the swap.
C14_SwapOrder ==
    /\ [](\A t \in Threads :
             /\ pc[t] \in {"ud_csv", "ud_compile"} \cup SwapPcs
                   => mutex_openjtalk_dict = t
             /\ pc[t] = "ud_csv"
                   => /\ tmp_csv[t] = NoFile
                      /\ tmp_compiled[t] = NoFile
                      /\ slot = pre[t].slot
                      /\ compiledFile = pre[t].compiled
             /\ pc[t] = "ud_compile"
                   => /\ tmp_csv[t] = [kind |-> "csv", body |-> csv_text[t]]
                      /\ tmp_compiled[t] = NoFile
                      /\ slot = pre[t].slot
                      /\ compiledFile = pre[t].compiled
             /\ pc[t] = "ud_unset"
                   => /\ tmp_compiled[t] = mecab_dict_index(tmp_csv[t])
                      /\ slot = pre[t].slot
                      /\ compiledFile = pre[t].compiled
             /\ pc[t] = "ud_replace"
                   => /\ tmp_compiled[t] = mecab_dict_index(tmp_csv[t])
                      /\ slot = NoDict
                      /\ compiledFile = pre[t].compiled
             /\ pc[t] = "ud_register"
                   => /\ tmp_compiled[t] = NoFile
                      /\ slot = NoDict
                      /\ compiledFile = mecab_dict_index(tmp_csv[t]))
    /\ [][/\ \A t \in Threads :
               /\ pc[t] = "ud_read_body" => pc'[t] \in {"ud_read_body", "ud_csv", "idle"}
               /\ pc[t] = "ud_csv" => pc'[t] \in {"ud_csv", "ud_compile", "idle"}
               /\ pc[t] = "ud_compile" => pc'[t] \in {"ud_compile", "ud_unset", "idle"}
               /\ pc[t] = "ud_unset" => pc'[t] \in {"ud_unset", "ud_replace", "idle"}
               /\ pc[t] = "ud_replace" => pc'[t] \in {"ud_replace", "ud_register", "idle"}
               /\ pc[t] = "ud_register" => pc'[t] \in {"ud_register", "idle"}
               /\ pc'[t] = "ud_unset" => pc[t] \in {"ud_compile", "ud_unset"}
               /\ (pc[t] = "ud_register" /\ Completes(t) /\ last' = "returned")
                     => slot' = compiledFile' /\ Exists(compiledFile')
          /\ (slot' # slot \/ compiledFile' # compiledFile)
               => \E t \in Threads : pc[t] \in SwapPcs /\ pc'[t] # pc[t]
          /\ (slot' # slot /\ slot' # NoDict)
               => \E t \in Threads :
                     /\ pc[t] = "ud_register"
                     /\ Completes(t)
                     /\ last' \in {"returned", "UnlinkError"}
                     /\ slot' = compiledFile'
                     /\ Exists(compiledFile')]_vars

\* the rename has put a new dictionary at the permanent path and the
\* registration is about to run
C14_Witness ==
    \E t \in Threads :
        /\ pc[t] = "ud_register"
        /\ slot = NoDict
        /\ pre[t].slot # NoDict
        /\ compiledFile # pre[t].compiled

(* ------------------------------- C15 ----------------------------------- *)
\* update_dict finds no base lexicon file (line 134; under pytest the list
\* of line 130 is never empty)
NoBase == ~is_pytest /\ nBase = 0

\* C15: with no base lexicon file, update_dict never gets to its read of the
\* store, its temporary files or the compiler; the step in which it runs
\* ends the call with a normal return and changes no file; no step changes
\* the permanent compiled file or the slot; and a mutating method that
\* returns has made its one store write.
C15_NoBaseIsNoop ==
    /\ [](NoBase =>
             \A t \in Threads :
                 /\ pc[t] \notin UdBodyPcs
                 /\ tmp_csv[t] = NoFile
                 /\ tmp_compiled[t] = NoFile)
    /\ [][NoBase =>
             /\ UNCHANGED <<compiledFile, slot>>
             /\ \A t \in Threads :
                   (pc[t] = "ud_acq" /\ pc'[t] # pc[t])
                       => /\ Completes(t)
                          /\ last' = "returned"
                          /\ UNCHANGED storeFile
                          /\ call[t].op = "after_write" => call[t].writes = 1]_vars

\* with no base lexicon an apply_word has returned an identifier, the store
\* lists it and nothing is registered
C15_Witness ==
    /\ NoBase
    /\ last = "returned"
    /\ hist.returned \cap Keys(Listed) # {}
    /\ slot = NoDict
    /\ compiledFile = NoFile

(* ------------------------------- C16 ----------------------------------- *)
\* positions inside the bodies of read_dict (called from a method or from
\* update_dict) and of _write_to_json
StoreBodyPcs == {"read_body", "ud_read_body", "write_body"}

\* C16: at most one thread is inside a body that reads or writes the store
\* file, and it holds the store lock; the store file changes only in the
\* step of a thread inside _write_to_json, which replaces it by the whole
\* mapping that thread was given or, when the write raises, leaves a file
\* that holds no document; and a read_dict that finds such a file raises:
\* it returns no mapping.
C16_StoreAccessExclusive ==
    /\ [](/\ Cardinality({t \in Threads : pc[t] \in StoreBodyPcs}) <= 1
          /\ \A t \in Threads : pc[t] \in StoreBodyPcs => mutex_user_dict = t)
    /\ [][storeFile' # storeFile
             => \E t \in Threads :
                   /\ pc[t] = "write_body"
                   /\ pc'[t] # pc[t]
                   /\ mutex_user_dict = t
                   /\ \/ storeFile' = write_to_json(new_dict[t])
                      \/ storeFile' = Partial /\ last' = "StoreWriteError"]_vars
    /\ [][\A t \in Threads :
             (pc[t] \in {"read_body", "ud_read_body"} /\ pc'[t] # pc[t]
                 /\ storeFile = Partial)
                => Completes(t) /\ last' = "ReadError"]_vars

\* a write of the store is in progress while another thread waits for the
\* store lock, to read the store (in a method or in update_dict) or to write it
C16_Witness ==
    \E t, u \in Threads :
        /\ pc[t] = "write_body"
        /\ pc[u] \in {"ud_read_acq", "write_acq", "read_acq"}
        /\ mutex_user_dict = t

(* ------------------------------- C17 ----------------------------------- *)
\* C17: a thread holds the store lock only inside the body of read_dict or
\* _write_to_json and the compilation lock only inside the body of
\* update_dict, however its previous bodies were left; when no call is
\* running both locks are free.
C17_LocksReleased ==
    /\ \A t \in Threads :
          /\ mutex_user_dict = t => pc[t] \in StoreBodyPcs
          /\ mutex_openjtalk_dict = t => pc[t] \in UdBodyPcs
    /\ Running = {}
          => mutex_user_dict = NoThread /\ mutex_openjtalk_dict = NoThread

\* read_dict has just raised inside update_dict, under both locks, and
\* nothing is running: both locks are free
C17_Witness ==
    /\ last = "ReadError"
    /\ hist.udFailed
    /\ Running = {}
    /\ mutex_user_dict = NoThread
    /\ mutex_openjtalk_dict = NoThread

(* ------------------------------- C18 ----------------------------------- *)
\* C18: a thread never waits for a lock it holds itself, a thread that waits
\* for the compilation lock does not hold the store lock (the two locks are
\* only ever taken compilation lock first), and every call a thread has
\* started ends: the thread gets back to idle.
C18_EveryCallEnds ==
    /\ [](\A t \in Threads :
             /\ pc[t] \in {"read_acq", "write_acq", "ud_read_acq"}
                   => mutex_user_dict # t
             /\ pc[t] = "ud_acq"
                   => mutex_openjtalk_dict # t /\ mutex_user_dict # t)
    /\ \A t \in Threads : (pc[t] # "idle") ~> (pc[t] = "idle")

\* a thread waits for the compilation lock while its holder, inside
\* update_dict, is about to take the store lock for its read
C18_Witness ==
    \E t, u \in Threads :
        /\ pc[t] = "ud_acq"
        /\ pc[u] = "ud_read_acq"
        /\ mutex_openjtalk_dict = u

(* ------------------------------- C19 ----------------------------------- *)
\* C19: no step of update_dict changes the store file, so the store a
\* mutating method has written is still there when its update_dict raises;
\* the method then ends with that exception, after its one write, and for
\* apply_word the new identifier is listed by the store although it was not
\* returned.
C19_NoRollback ==
    [][\A t \in Threads :
          /\ (pc[t] \in UdPcs /\ pc'[t] # pc[t]) => UNCHANGED storeFile
          /\ (Completes(t) /\ pc[t] \in UdPcs /\ call[t].op = "after_write"
                 /\ last' # "returned")
                => /\ last' # NoLast
                   /\ hist'.udFailed
                   /\ call[t].writes = 1
                   /\ word_uuid[t] # NoKey
                         => /\ word_uuid[t] \in Keys(ListedNext)
                            /\ word_uuid[t] \notin hist'.returned]_vars

\* the update_dict of an apply_word has just raised: the store lists the
\* word's identifier, which no call has returned
C19_Witness ==
    /\ last \in CompilerErrors \cup {"BaseReadError", "ReplaceError"}
    /\ nextUuid > 1
    /\ <<nextUuid - 1, Canon>> \in Keys(Listed) \ hist.returned

(* ------------------------------- C20 ----------------------------------- *)
\* the calls on aivm_manager that the step adds to those made before
NewAivmCalls == SubSeq(aivm_calls', Len(aivm_calls) + 1, Len(aivm_calls'))

\* C20: a request with a file makes exactly one call, install_aivm with
\* that file, whether or not it has a url; a request with a url and no file
\* makes exactly one call, install_aivm_from_url with that url; a request
\* with neither makes no call and is answered 422; earlier calls stay as
\* they were.
C20_InstallDispatch ==
    [][install_log' # install_log
          => LET r == install_log'[Len(install_log')]
             IN  /\ install_log' = Append(install_log, r)
                 /\ SubSeq(aivm_calls', 1, Len(aivm_calls)) = aivm_calls
                 /\ r.file # None
                       => NewAivmCalls = << <<"install_aivm", r.file>> >>
                 /\ (r.file = None /\ r.url # None)
                       => NewAivmCalls = << <<"install_aivm_from_url", r.url>> >>
                 /\ (r.file = None /\ r.url = None)
                       => NewAivmCalls = << >> /\ r.status = "422"]_vars

\* a request with both a file and a url, one with a url only and one with
\* neither have been handled: two calls were made, the first from the file
C20_Witness ==
    /\ Len(install_log) = 3
    /\ install_log[1].file # None /\ install_log[1].url # None
    /\ install_log[2].file = None /\ install_log[2].url # None
    /\ install_log[3].file = None /\ install_log[3].url = None
    /\ Len(aivm_calls) = 2
    /\ aivm_calls[1][1] = "install_aivm"
    /\ aivm_calls[2][1] = "install_aivm_from_url"
====
